---- MODULE Spec2Model ----
(***************************************************************************)
(* Model of src/main.rs: the Map height field, its multi-octave generate,  *)
(* and its renderers (iter, to_table, to_html_table, to_image,             *)
(* to_data_uri).                                                           *)
(*                                                                         *)
(* Numbers.  f32 values are modelled as exact rationals over fixed         *)
(* denominators:                                                           *)
(*   - buffer values and layer scales/offsets are integers in units of     *)
(*     1/Unit, where Unit = 2 * 6^MaxRoughness makes 0.5 and every         *)
(*     1/6^k (k <= MaxRoughness) exact;                                    *)
(*   - heights (min_z, max_z) are integers in units of 1/HDen;             *)
(*   - a rescaled height is an integer in units of 1/(Unit*HDen);          *)
(*   - a frequency is a pair <<num, den>> (den = 0 is +infinity).          *)
(* f32 rounding, NaN and overflow are outside the model.                   *)
(***************************************************************************)
EXTENDS Integers, Sequences, FiniteSets, TLC

VARIABLES
    map,        \* the Map: [size, height, roughness, data]
    generations,\* history: generate calls returned on map, counted up to GenCap
    lastSeed,   \* history: the Option<u64> of the last generate_seeded on map
    calls,      \* history: the generate_layer calls of the last generate on map
    ret,        \* the value returned by the last operation
    twin        \* a second Map with the same constructor arguments: [map, lastSeed]

vars == <<map, generations, lastSeed, calls, ret, twin>>

----------------------------------------------------------------------------
(* Bounds *)

MaxDim == 2
MaxRoughness == 2
MaxSeed == 1
GenCap == 2

Dims == 0..MaxDim
Roughnesses == 0..MaxRoughness
Seeds == 0..MaxSeed          \* the u64 values used as seeds
\* Option<u64>: None is the empty sequence, Some(s) the sequence <<s>>
None == <<>>
Some(s) == <<s>>
SeedOptions == {Some(s) : s \in Seeds} \cup {None}

\* heights are in units of 1/HDen; the (min_z, max_z) pairs tried are
\* (0, 10), (-1, 0.26) and (3, 0)
HDen == 100
HeightRanges == {<<0, 10 * HDen>>, <<0 - HDen, 26>>, <<3 * HDen, 0>>}

RECURSIVE Pow(_, _)
Pow(b, k) == IF k = 0 THEN 1 ELSE b * Pow(b, k - 1)

\* 1.0 in buffer units
Unit == 2 * Pow(6, MaxRoughness)

----------------------------------------------------------------------------
(* External collaborators *)

\* FastNoise::get_noise(x, y) for an evaluator configured with seed and
\* frequency fnum/fden: a pure function of (seed, frequency, x, y) with
\* values in {-1, 0, 1} (whole units).
Noise(seed, fnum, fden, x, y) ==
    (((seed + 1) * (3 * x + 5 * y + 1) + seed * seed + fnum + 2 * fden + x * y) % 3) - 1

\* StdRng::seed_from_u64(seed): the k-th next_u64() of the stream (k >= 1)
StdRngNext(seed, k) == (seed * k + seed + k * k) % (MaxSeed + 1)

\* the first n draws of StdRng::seed_from_u64(seed)
StdRngStream(seed, n) == [k \in 1..n |-> StdRngNext(seed, k)]

\* a generator seeded from entropy e outside the program (thread_rng(), or
\* a caller's own RngCore): the k-th next_u64()
EntropyRngNext(e, k) == (e + (k * (k + 1)) \div 2) % (MaxSeed + 1)

\* the first n draws thread_rng() can give: one stream per entropy value
ThreadRngStreams(n) == {[k \in 1..n |-> EntropyRngNext(e, k)] : e \in Seeds}

----------------------------------------------------------------------------
(* generate_layer *)

\* the index expression of line 17
CellIndex(x, y, size) == x + y * size[1]

\* variant: the cell is assigned instead of added to
SetCell(nz, size, scale, offset, output, x, y) ==
    LET i == x + y * size[1] + 1
        v == Noise(nz.seed, nz.freq[1], nz.freq[2], x, y) * scale + offset
    IN SubSeq(output, 1, i - 1) \o <<v>> \o SubSeq(output, i + 1, Len(output))

\* line 17, one cell: output[x + y * size.0] += noise(x, y) * scale + offset
\* (sequences are 1-based, Rust indices 0-based)
AddCell(nz, size, scale, offset, output, x, y) ==
    LET i == CellIndex(x, y, size) + 1
        v == output[i] + Noise(nz.seed, nz.freq[1], nz.freq[2], x, y) * scale + offset
    IN SubSeq(output, 1, i - 1) \o <<v>> \o SubSeq(output, i + 1, Len(output))

\* for x in 0..size.0 at row y, from column x on
RECURSIVE LayerRow(_, _, _, _, _, _, _)
LayerRow(nz, size, scale, offset, output, x, y) ==
    IF x >= size[1] THEN output
    ELSE LayerRow(nz, size, scale, offset,
                  AddCell(nz, size, scale, offset, output, x, y), x + 1, y)

\* for y in 0..size.1, from row y on
RECURSIVE LayerRows(_, _, _, _, _, _)
LayerRows(nz, size, scale, offset, output, y) ==
    IF y >= size[2] THEN output
    ELSE LayerRows(nz, size, scale, offset,
                   LayerRow(nz, size, scale, offset, output, 0, y), y + 1)

generate_layer(nz, size, scale, offset, output) ==
    LayerRows(nz, size, scale, offset, output, 0)

----------------------------------------------------------------------------
(* Map::new *)

\* variant: the buffer is allocated (zeroed) at construction
NewPrealloc(size_x, size_y, min_z, max_z, roughness) ==
    [size |-> <<size_x, size_y>>,
     height |-> <<min_z, max_z>>,
     roughness |-> roughness,
     data |-> [i \in 1..(size_x * size_y) |-> 0]]

New(size_x, size_y, min_z, max_z, roughness) ==
    [size |-> <<size_x, size_y>>,
     height |-> <<min_z, max_z>>,
     roughness |-> roughness,
     data |-> <<>>]

----------------------------------------------------------------------------
(* Map::generate *)

\* n copies of 0.0
RECURSIVE Zeros(_)
Zeros(n) == IF n <= 0 THEN <<>> ELSE Append(Zeros(n - 1), 0)

\* variant: generate accumulates into the buffer the Map already holds
KeepBuffer(m) ==
    IF Len(m.data) = m.size[1] * m.size[2] THEN m.data
    ELSE Zeros(m.size[1] * m.size[2])

\* lines 90-91: data.resize(size.0 * size.1, 0.0)
ZeroBuffer(m) == Zeros(m.size[1] * m.size[2])

\* lines 93-95: avg = (size.0 + size.1) / 2, freq = 1 / avg, scale = 1.0
BaseFreq(m) == <<2, m.size[1] + m.size[2]>>
BaseScale == Unit

\* the scale and offset handed to generate_layer for the base octave (line 99)
BaseLayerScale(scale) == scale \div 2
BaseLayerOffset(scale) == scale \div 2

\* lines 101-102
NextFreq(freq) == <<freq[1] * 4, freq[2]>>
\* variant: the scale is halved per octave
NextScaleHalved(scale) == scale \div 2

NextScale(scale) == scale \div 6

\* the record of one generate_layer call
LayerCall(seed, freq, scale, offset, before, after) ==
    [seed |-> seed, freq |-> freq, scale |-> scale, offset |-> offset,
     before |-> before, after |-> after]

\* lines 100-106: the loop body for octaves k..roughness, rng draws k+1..
\* st = [freq, scale, data, calls]
RECURSIVE Octaves(_, _, _, _)
Octaves(m, rng, st, k) ==
    IF k > m.roughness THEN st
    ELSE LET freq == NextFreq(st.freq)
             scale == NextScale(st.scale)
             nz == [seed |-> rng[k + 1], freq |-> freq]
             data == generate_layer(nz, m.size, scale, 0, st.data)
         IN Octaves(m, rng,
                    [freq |-> freq, scale |-> scale, data |-> data,
                     calls |-> Append(st.calls,
                                 LayerCall(nz.seed, freq, scale, 0, st.data, data))],
                    k + 1)

\* lines 89-107: everything up to the assignment self.data = data;
\* rng is the stream of next_u64() values, one per octave
GenerateRun(m, rng) ==
    LET data0 == ZeroBuffer(m)
        freq == BaseFreq(m)
        scale == BaseScale
        nz == [seed |-> rng[1], freq |-> freq]
        data1 == generate_layer(nz, m.size, BaseLayerScale(scale),
                                BaseLayerOffset(scale), data0)
    IN Octaves(m, rng,
               [freq |-> freq, scale |-> scale, data |-> data1,
                calls |-> <<LayerCall(nz.seed, freq, BaseLayerScale(scale),
                                      BaseLayerOffset(scale), data0, data1)>>],
               1)

\* line 107
AssignData(m, data) == [m EXCEPT !.data = data]
Generate(m, rng) == AssignData(m, GenerateRun(m, rng).data)

\* variant: the seed is ignored and entropy is always drawn
EntropyStreams(m, seed) == ThreadRngStreams(m.roughness + 1)

\* the streams generate_seeded(seed) can hand to generate (lines 42-46)
RngStreams(m, seed) ==
    IF seed # None THEN {StdRngStream(seed[1], m.roughness + 1)}
    ELSE ThreadRngStreams(m.roughness + 1)

----------------------------------------------------------------------------
(* Map::iter *)

\* variant: the row length is taken from size.1
IterByHeight(m) ==
    LET width == m.size[2]
    IN [i \in 1..Len(m.data) |->
            <<<<(i - 1) % width, (i - 1) \div width>>, m.data[i]>>]

\* lines 110-117: entry i (0-based) is ((i % width, i / width), data[i])
Iter(m) ==
    LET width == m.size[1]
    IN [i \in 1..Len(m.data) |->
            <<<<(i - 1) % width, (i - 1) \div width>>, m.data[i]>>]

----------------------------------------------------------------------------
(* Rescaling and formatting *)

\* variant: the raw value is used unclamped
NoClamp(h) == h

\* h.clamp(0.0, 1.0)
Clamp(h) == IF h < 0 THEN 0 ELSE IF h > Unit THEN Unit ELSE h

\* lines 57, 73: h.clamp(0.0, 1.0) * (height.1 - height.0) + height.0,
\* in units of 1/(Unit * HDen)
Rescale(m, h) == Clamp(h) * (m.height[2] - m.height[1]) + m.height[1] * Unit

Abs(n) == IF n < 0 THEN 0 - n ELSE n

\* {:.1}: num/den rounded to a whole number of tenths, ties to even; the
\* magnitude only
RoundTenths(num, den) ==
    LET a == Abs(num) * 10
        q == a \div den
        r == a % den
    IN IF 2 * r > den THEN q + 1
       ELSE IF 2 * r = den THEN q + (q % 2)
       ELSE q

Digit(d) == <<"0", "1", "2", "3", "4", "5", "6", "7", "8", "9">>[d + 1]

RECURSIVE DecDigits(_)
DecDigits(n) ==
    IF n < 10 THEN <<Digit(n)>> ELSE Append(DecDigits(n \div 10), Digit(n % 10))

RECURSIVE Spaces(_)
Spaces(n) == IF n <= 0 THEN <<>> ELSE <<" ">> \o Spaces(n - 1)

\* format!("{:width$.1}", h) for h = num/den: sign, integer digits, ".",
\* one decimal, right-aligned in width columns
FormatFixed1(num, den, width) ==
    LET t == RoundTenths(num, den)
        body == (IF num < 0 THEN <<"-">> ELSE <<>>)
                    \o DecDigits(t \div 10) \o <<".">> \o <<Digit(t % 10)>>
    IN Spaces(width - Len(body)) \o body

\* (hz as f32).log10() as usize for hz in units of 1/HDen: the cast
\* saturates NaN and negatives to 0 and truncates
RECURSIVE Log10AsUsize(_)
Log10AsUsize(hz) ==
    IF hz < 10 * HDen THEN 0 ELSE 1 + Log10AsUsize(hz \div 10)

CR == "\r"
LF == "\n"
SP == " "

----------------------------------------------------------------------------
(* Map::to_table *)

\* line 65
TableWidth(m) == Log10AsUsize(m.height[2]) + 3

\* String::pop
Pop(s) == IF s = <<>> THEN s ELSE SubSeq(s, 1, Len(s) - 1)

\* lines 68-74: the closure body for one entry
TableEntry(m, data, e) ==
    LET x == e[1][1]
        y == e[1][2]
        broken == IF x = 0 /\ y # 0 THEN Pop(data) \o <<CR, LF>> ELSE data
    IN broken \o FormatFixed1(Rescale(m, e[2]), Unit * HDen, TableWidth(m)) \o <<SP>>

RECURSIVE TableFold(_, _, _, _)
TableFold(m, it, i, data) ==
    IF i > Len(it) THEN data
    ELSE TableFold(m, it, i + 1, TableEntry(m, data, it[i]))

\* lines 64-77
ToTable(m) == TableFold(m, Iter(m), 1, <<>>)

----------------------------------------------------------------------------
(* Map::to_html_table: the table's rows, each a sequence of cell texts *)

\* lines 54-60: the closure body for one entry
HtmlEntry(m, rows, e) ==
    LET x == e[1][1]
        y == e[1][2]
        rs == IF x = 0 /\ y # 0 THEN Append(rows, <<>>) ELSE rows
        cell == FormatFixed1(Rescale(m, e[2]), Unit * HDen, 0)
    IN [rs EXCEPT ![Len(rs)] = Append(@, cell)]

RECURSIVE HtmlFold(_, _, _, _)
HtmlFold(m, it, i, rows) ==
    IF i > Len(it) THEN rows
    ELSE HtmlFold(m, it, i + 1, HtmlEntry(m, rows, it[i]))

\* lines 49-62: the table is emptied and one row inserted before the loop
ToHtmlTable(m) == HtmlFold(m, Iter(m), 1, <<<<>>>>)

----------------------------------------------------------------------------
(* Map::to_image *)

\* line 122: (h.clamp(0.0, 1.0) * 255.0) as u8
Intensity(h) == (Clamp(h) * 255) \div Unit

\* RgbImage::new(width, height): all pixels zero
NewImage(w, h) ==
    [width |-> w, height |-> h,
     pixels |-> [p \in (0..(w - 1)) \X (0..(h - 1)) |-> <<0, 0, 0>>]]

\* line 123
PutPixel(image, x, y, c) ==
    [image EXCEPT !.pixels[<<x, y>>] = <<c, c, c>>]

RECURSIVE ImageFold(_, _, _)
ImageFold(it, i, image) ==
    IF i > Len(it) THEN image
    ELSE ImageFold(it, i + 1,
                   PutPixel(image, it[i][1][1], it[i][1][2], Intensity(it[i][2])))

\* lines 119-126
ToImage(m) == ImageFold(Iter(m), 1, NewImage(m.size[1], m.size[2]))

\* lines 79-86: the PNG encoder and base64 are external and kept symbolic
ToDataUri(m) ==
    [prefix |-> "data:image/png;base64,",
     payload |-> <<"base64", <<"png", ToImage(m)>>>>]

----------------------------------------------------------------------------
(* The state machine of one Map *)

Return(op, value) == [op |-> op, value |-> value]

Init ==
    /\ \E size_x \in Dims, size_y \in Dims, z \in HeightRanges,
          roughness \in Roughnesses :
            map = New(size_x, size_y, z[1], z[2], roughness)
    /\ generations = 0
    /\ lastSeed = None
    /\ calls = <<>>
    /\ ret = Return("new", "Map")
    /\ twin = [map |-> map, lastSeed |-> None]

\* generate(rng) on the Map, with the stream rng; the value returned last
\* is generate's unit
DoGenerate(seed, rng) ==
    /\ map' = Generate(map, rng)
    /\ calls' = GenerateRun(map, rng).calls
    /\ generations' = IF generations < GenCap THEN generations + 1 ELSE generations
    /\ lastSeed' = seed
    /\ ret' = Return("generate", "unit")
    /\ UNCHANGED twin

\* lines 41-47
GenerateSeeded ==
    \E seed \in SeedOptions : \E rng \in RngStreams(map, seed) :
        DoGenerate(seed, rng)

\* lines 89-108, called with a caller's own RngCore
GenerateRng ==
    \E rng \in ThreadRngStreams(map.roughness + 1) :
        DoGenerate(None, rng)

Observe(op, value) ==
    /\ ret' = Return(op, value)
    /\ UNCHANGED <<map, generations, lastSeed, calls, twin>>

IterCall == Observe("iter", Iter(map))
ToTableCall == Observe("to_table", ToTable(map))
ToHtmlTableCall == Observe("to_html_table", ToHtmlTable(map))
ToImageCall == Observe("to_image", ToImage(map))
ToDataUriCall == Observe("to_data_uri", ToDataUri(map))

Next ==
    \/ GenerateSeeded
    \/ GenerateRng
    \/ IterCall
    \/ ToTableCall
    \/ ToHtmlTableCall
    \/ ToImageCall
    \/ ToDataUriCall

Spec == Init /\ [][Next]_vars

----------------------------------------------------------------------------
(* Properties of the single-Map machine *)

Width == map.size[1]
Height == map.size[2]
Generated == generations > 0
Cells == (0..(Width - 1)) \X (0..(Height - 1))

\* C1: after generate, iter() yields width*height entries, every grid
\* coordinate exactly once, the i-th entry being
\* ((i mod width, i div width), data[i]).
IterRowMajor ==
    (Generated /\ ret.op = "iter") =>
        LET it == ret.value
        IN /\ Len(it) = Width * Height
           /\ \A c \in Cells :
                Cardinality({i \in 1..Len(it) : it[i][1] = c}) = 1
           /\ \A i \in 1..Len(it) :
                it[i] = <<<<(i - 1) % Width, (i - 1) \div Width>>, map.data[i]>>

IterRowMajorWitness ==
    /\ Generated
    /\ ret.op = "iter"
    /\ Width > 1
    /\ Height > 0
    /\ Width # Height

\* C2: construction fails with an invalid-configuration error exactly when
\* width or height is zero, and no Map with a zero dimension exists.
ConstructRejectsZero ==
    /\ ret.op = "new" =>
        (ret.value = "InvalidConfiguration" <=> (Width = 0 \/ Height = 0))
    /\ Width # 0
    /\ Height # 0

\* C7: on a Map never generated, iter() is empty, to_table() is the empty
\* text, and to_image() has the Map's dimensions and only zero pixels.
UngeneratedReads ==
    ~Generated =>
        /\ ret.op = "iter" => ret.value = <<>>
        /\ ret.op = "to_table" => ret.value = <<>>
        /\ ret.op = "to_image" =>
            /\ ret.value.width = Width
            /\ ret.value.height = Height
            /\ DOMAIN ret.value.pixels = Cells
            /\ \A c \in Cells : ret.value.pixels[c] = <<0, 0, 0>>

UngeneratedReadsWitness ==
    /\ ~Generated
    /\ ret.op = "to_image"
    /\ Width > 0
    /\ Height > 0

\* C10: the buffer is empty before the first generate and populated after
\* it, no operation empties a populated buffer, and size never changes.
LifecycleOneWay ==
    /\ [](Generated <=> map.data # <<>>)
    /\ [][(map.data # <<>> => map'.data # <<>>) /\ map'.size = map.size]_vars

\* a/b = 4 * c/d for frequencies <<a, b>>, <<c, d>>
FreqTimes4(f, g) == f[1] * g[2] = 4 * g[1] * f[2]

\* C4 as stated: base octave scale 0.5 and offset 0.5; every additional
\* octave has offset 0, 4 times the previous frequency and the previous
\* octave's scale divided by 6, so that octave k uses 0.5/6^k.
OctaveScalesDividedBySix ==
    Generated =>
        /\ Len(calls) = map.roughness + 1
        /\ calls[1].scale * 2 = Unit
        /\ calls[1].offset * 2 = Unit
        /\ \A k \in 2..Len(calls) :
            /\ calls[k].offset = 0
            /\ FreqTimes4(calls[k].freq, calls[k - 1].freq)
            /\ calls[k].scale * 6 = calls[k - 1].scale
            /\ calls[k].scale * 2 * Pow(6, k - 1) = Unit
            /\ calls[k].scale < calls[k - 1].scale

\* C4 amended: base octave scale 0.5 and offset 0.5; additional octave k
\* has offset 0, 4 times the previous frequency and scale 1/6^k: a third of
\* the base octave's scale for k = 1, a sixth of the previous octave's
\* scale for k > 1; the scale strictly decreases from octave to octave.
OctaveScalesPowersOfSix ==
    Generated =>
        /\ Len(calls) = map.roughness + 1
        /\ calls[1].scale * 2 = Unit
        /\ calls[1].offset * 2 = Unit
        /\ \A k \in 2..Len(calls) :
            /\ calls[k].offset = 0
            /\ FreqTimes4(calls[k].freq, calls[k - 1].freq)
            /\ calls[k].scale * Pow(6, k - 1) = Unit
            /\ calls[k].scale * (IF k = 2 THEN 3 ELSE 6) = calls[k - 1].scale
            /\ calls[k].scale < calls[k - 1].scale

OctaveScalesWitness ==
    /\ Generated
    /\ map.roughness >= 2
    /\ Len(calls) >= 3

\* the sum over the calls k.. of noise(x, y) * scale + offset
RECURSIVE SumCalls(_, _, _, _)
SumCalls(cs, k, x, y) ==
    IF k > Len(cs) THEN 0
    ELSE Noise(cs[k].seed, cs[k].freq[1], cs[k].freq[2], x, y) * cs[k].scale
            + cs[k].offset + SumCalls(cs, k + 1, x, y)

\* C8: after any sequence of generate calls the buffer has width*height
\* cells, each the sum of the last call's octave contributions over a
\* zeroed buffer; size, height range and octave count never change.
GenerateOverwrites ==
    /\ [](Generated =>
            /\ Len(map.data) = Width * Height
            /\ \A c \in Cells :
                map.data[c[1] + c[2] * Width + 1] = SumCalls(calls, 1, c[1], c[2]))
    /\ [][/\ map'.size = map.size
          /\ map'.height = map.height
          /\ map'.roughness = map.roughness]_vars

GenerateOverwritesWitness ==
    /\ generations >= 2
    /\ Width > 0
    /\ Height > 0
    /\ \E c \in Cells : map.data[c[1] + c[2] * Width + 1] # 0

----------------------------------------------------------------------------
(* Reading rendered text back *)

IsSpace(c) == c \in {SP, CR, LF}

\* the maximal runs of non-whitespace characters of s, in order
RECURSIVE TokensFrom(_, _, _, _)
TokensFrom(s, i, cur, acc) ==
    IF i > Len(s) THEN (IF cur = <<>> THEN acc ELSE Append(acc, cur))
    ELSE IF IsSpace(s[i])
         THEN TokensFrom(s, i + 1, <<>>, IF cur = <<>> THEN acc ELSE Append(acc, cur))
         ELSE TokensFrom(s, i + 1, Append(cur, s[i]), acc)

Tokens(s) == TokensFrom(s, 1, <<>>, <<>>)

\* the pieces of s between occurrences of CR LF; the empty text has no rows
RECURSIVE RowsFrom(_, _, _, _)
RowsFrom(s, i, cur, acc) ==
    IF i > Len(s) THEN Append(acc, cur)
    ELSE IF s[i] = CR /\ i < Len(s) /\ s[i + 1] = LF
         THEN RowsFrom(s, i + 2, <<>>, Append(acc, cur))
         ELSE RowsFrom(s, i + 1, Append(cur, s[i]), acc)

Rows(s) == IF s = <<>> THEN <<>> ELSE RowsFrom(s, 1, <<>>, <<>>)

IsDigit(c) == \E d \in 0..9 : Digit(d) = c
DigitValue(c) == CHOOSE d \in 0..9 : Digit(d) = c

RECURSIVE NatValue(_, _, _)
NatValue(s, i, acc) ==
    IF i > Len(s) THEN acc ELSE NatValue(s, i + 1, acc * 10 + DigitValue(s[i]))

Unsigned(tok) == IF tok # <<>> /\ tok[1] = "-" THEN Tail(tok) ELSE tok

\* tok is [-]digits.digit
IsNumeric(tok) ==
    LET b == Unsigned(tok)
    IN /\ Len(b) >= 3
       /\ b[Len(b) - 1] = "."
       /\ \A i \in (1..Len(b)) \ {Len(b) - 1} : IsDigit(b[i])

\* the value of a numeric token, in tenths
TokenTenths(tok) ==
    LET b == Unsigned(tok)
        n == NatValue(SubSeq(b, 1, Len(b) - 2), 1, 0) * 10 + DigitValue(b[Len(b)])
    IN IF tok[1] = "-" THEN 0 - n ELSE n

\* num/den rounded to tenths as {:.1} prints it, with its sign
SignedTenths(num, den) ==
    IF num < 0 THEN 0 - RoundTenths(num, den) ELSE RoundTenths(num, den)

\* the cell texts of an HTML table, row after row
RECURSIVE Flatten(_, _)
Flatten(rows, i) ==
    IF i > Len(rows) THEN <<>> ELSE rows[i] \o Flatten(rows, i + 1)

\* the numeric texts a rendering holds, in order
RenderedTokens ==
    IF ret.op = "to_table" THEN Tokens(ret.value)
    ELSE IF ret.op = "to_html_table" THEN Flatten(ret.value, 1)
    ELSE <<>>

MinZ == map.height[1]
MaxZ == map.height[2]
IsText == ret.op \in {"to_table", "to_html_table"}

\* the image part of C6: intensities lie in 0..255, raw <= 0 gives 0 and
\* raw >= 1 gives 255
ImageInRange ==
    ret.op = "to_image" =>
        \A i \in 1..Len(map.data) :
            LET px == ret.value.pixels[<<(i - 1) % Width, (i - 1) \div Width>>]
            IN /\ px[1] \in 0..255
               /\ px[2] = px[1]
               /\ px[3] = px[1]
               /\ map.data[i] <= 0 => px[1] = 0
               /\ map.data[i] >= Unit => px[1] = 255

\* C6 as stated: with min <= max every value rendered by to_table and
\* to_html_table lies in [min, max], raw <= 0 rendering min and raw >= 1
\* rendering max; to_image intensities lie in [0, 255] likewise.
RenderedInRange ==
    MinZ <= MaxZ =>
        /\ IsText =>
            /\ Len(RenderedTokens) = Len(map.data)
            /\ \A i \in 1..Len(RenderedTokens) :
                LET t == TokenTenths(RenderedTokens[i])
                IN /\ IsNumeric(RenderedTokens[i])
                   /\ MinZ * 10 <= t * HDen
                   /\ t * HDen <= MaxZ * 10
                   /\ map.data[i] <= 0 => t * HDen = MinZ * 10
                   /\ map.data[i] >= Unit => t * HDen = MaxZ * 10
        /\ ImageInRange

\* C6 amended: with min <= max the rescaled value lies in [min, max], raw
\* <= 0 giving min and raw >= 1 giving max; the text rendered is that value
\* rounded to one decimal, so it lies between min and max rounded to one
\* decimal; to_image intensities lie in [0, 255], 0 for raw <= 0 and 255 for
\* raw >= 1.
RenderedInRoundedRange ==
    MinZ <= MaxZ =>
        /\ \A i \in 1..Len(map.data) :
            LET v == Rescale(map, map.data[i])
            IN /\ MinZ * Unit <= v
               /\ v <= MaxZ * Unit
               /\ map.data[i] <= 0 => v = MinZ * Unit
               /\ map.data[i] >= Unit => v = MaxZ * Unit
        /\ IsText =>
            /\ Len(RenderedTokens) = Len(map.data)
            /\ \A i \in 1..Len(RenderedTokens) :
                LET t == TokenTenths(RenderedTokens[i])
                IN /\ IsNumeric(RenderedTokens[i])
                   /\ SignedTenths(MinZ, HDen) <= t
                   /\ t <= SignedTenths(MaxZ, HDen)
                   /\ map.data[i] <= 0 => t = SignedTenths(MinZ, HDen)
                   /\ map.data[i] >= Unit => t = SignedTenths(MaxZ, HDen)
        /\ ImageInRange

RenderedInRangeWitness ==
    /\ MinZ <= MaxZ
    /\ ret.op = "to_table"
    /\ \E i \in 1..Len(map.data) : map.data[i] > Unit
    /\ \E i \in 1..Len(map.data) : map.data[i] < 0

\* the shape of a to_table text: Height rows separated by CR LF, each of
\* Width numeric tokens in buffer order, no space before a separator and no
\* separator at the end
TableShape(text) ==
    LET rows == Rows(text)
    IN /\ Len(rows) = Height
       /\ \A r \in 1..Len(rows) :
            /\ \A j \in 1..Len(rows[r]) : rows[r][j] \notin {CR, LF}
            /\ Len(Tokens(rows[r])) = Width
            /\ \A c \in 1..Len(Tokens(rows[r])) :
                LET tok == Tokens(rows[r])[c]
                    i == (r - 1) * Width + c
                IN /\ IsNumeric(tok)
                   /\ i <= Len(map.data)
                   /\ TokenTenths(tok)
                        = SignedTenths(Rescale(map, map.data[i]), Unit * HDen)
       /\ \A j \in 1..Len(text) : text[j] = CR => (j > 1 /\ text[j - 1] # SP)
       /\ ~(Len(text) >= 2 /\ text[Len(text) - 1] = CR /\ text[Len(text)] = LF)

\* C9: for a generated Map, to_table() returns exactly height rows
\* separated by CR LF, each of exactly width numeric tokens in buffer
\* order, with no space before a separator and no separator after the last
\* row.
TableRows ==
    (Generated /\ ret.op = "to_table") => TableShape(ret.value)

\* the shape of C9 restricted to Maps whose width and height are both
\* positive
TableRowsPositiveSize ==
    (Generated /\ ret.op = "to_table" /\ Width > 0 /\ Height > 0)
        => TableShape(ret.value)

\* the lifecycle restricted to Maps whose width and height are both
\* positive
LifecyclePositiveSize ==
    (Width > 0 /\ Height > 0) => (Generated <=> map.data # <<>>)

----------------------------------------------------------------------------
(* Two Maps built from the same constructor arguments *)

\* generate_seeded on the second Map
GenerateSeededTwin ==
    /\ \E seed \in SeedOptions : \E rng \in RngStreams(twin.map, seed) :
        twin' = [map |-> Generate(twin.map, rng), lastSeed |-> seed]
    /\ UNCHANGED <<map, generations, lastSeed, calls, ret>>

NextPair ==
    \/ GenerateSeeded
    \/ GenerateSeededTwin

SpecPair == Init /\ [][NextPair]_vars

\* C3: two Maps with the same size, height range and octave count whose
\* last generate_seeded used the same Some(seed) yield identical iter()
\* sequences, whatever either held before.
SeededDeterminism ==
    (lastSeed # None /\ twin.lastSeed = lastSeed) => Iter(map) = Iter(twin.map)

SeededDeterminismWitness ==
    /\ lastSeed # None
    /\ twin.lastSeed = lastSeed
    /\ generations >= 2
    /\ map.roughness >= 1
    /\ \E i \in 1..Len(map.data) : map.data[i] # 0

----------------------------------------------------------------------------
(* generate_layer on its own: any grid, any prior buffer content *)

\* the values a prior buffer cell is drawn from: 0.0 and 1.0
PriorValues == {0, Unit}

RECURSIVE Buffers(_)
Buffers(n) ==
    IF n <= 0 THEN {<<>>}
    ELSE {Append(b, v) : b \in Buffers(n - 1), v \in PriorValues}

InitLayer ==
    /\ map = New(0, 0, 0, 0, 0)
    /\ generations = 0
    /\ lastSeed = None
    /\ calls = <<>>
    /\ twin = [map |-> map, lastSeed |-> None]
    /\ \E w \in Dims, h \in Dims : \E output \in Buffers(w * h) :
        ret = Return("layer_input", [size |-> <<w, h>>, output |-> output])

ApplyLayer ==
    /\ ret.op = "layer_input"
    /\ \E seed \in Seeds, k \in Roughnesses,
          scale \in {Unit \div 2, Unit \div 6}, offset \in {0, Unit \div 2} :
        LET size == ret.value.size
            nz == [seed |-> seed, freq |-> <<2 * Pow(4, k), size[1] + size[2]>>]
        IN ret' = Return("generate_layer",
                    [size |-> size, nz |-> nz, scale |-> scale, offset |-> offset,
                     before |-> ret.value.output,
                     output |-> generate_layer(nz, size, scale, offset,
                                               ret.value.output)])
    /\ UNCHANGED <<map, generations, lastSeed, calls, twin>>

NextLayer == ApplyLayer

SpecLayer == InitLayer /\ [][NextLayer]_vars

\* C5: generate_layer on a buffer of width*height cells keeps the length
\* and changes every cell exactly once: the cell at x + y*width becomes its
\* previous value plus noise(x, y)*scale + offset.
LayerAccumulates ==
    ret.op = "generate_layer" =>
        LET v == ret.value
            w == v.size[1]
            h == v.size[2]
            grid == (0..(w - 1)) \X (0..(h - 1))
        IN /\ Len(v.output) = Len(v.before)
           /\ \A i \in 1..Len(v.before) :
                Cardinality({c \in grid : c[1] + c[2] * w + 1 = i}) = 1
           /\ \A c \in grid :
                v.output[c[1] + c[2] * w + 1]
                    = v.before[c[1] + c[2] * w + 1]
                        + Noise(v.nz.seed, v.nz.freq[1], v.nz.freq[2], c[1], c[2])
                            * v.scale
                        + v.offset

LayerAccumulatesWitness ==
    /\ ret.op = "generate_layer"
    /\ ret.value.size[1] > 1
    /\ ret.value.size[2] > 1
    /\ \E i \in 1..Len(ret.value.before) :
        /\ ret.value.before[i] # 0
        /\ ret.value.output[i] # ret.value.before[i]

====
